---- MODULE Spec2Model ----
(***************************************************************************)
(* gh-starred: the concurrent paginated fetch-and-cache engine             *)
(* (getRepos / getReposPerPageBatch / getReposPerPage), the process-wide   *)
(* cache slot cachedRepositories, the repos listing and the shell loop of  *)
(* src/gh-starred.go.                                                      *)
(*                                                                         *)
(* One process is modelled.  `mode` says how it is driven:                 *)
(*   "oneshot"  main() runs one command from os.Args and exits;            *)
(*   "shell"    the shell command: a prompt loop that re-dispatches each   *)
(*              input line through AppExecuter.execute;                    *)
(*   "direct"   getRepos called directly, any number of times, with any    *)
(*              (batchSize, useCache): the function's own contract.  No    *)
(*              command of the program passes useCache = false.            *)
(***************************************************************************)
EXTENDS Integers, Sequences, FiniteSets, Bags, TLC

\* ---------------------------------------------------------------- bounds
\* largest --batch-size the model runs
MaxBatch == 2
\* the remote list holds at most MaxPages full pages
MaxPages == 2
\* a page cursor that moves backwards is followed for MaxRewind pages
MaxRewind == 2
\* longest line of the prompt, in pieces
MaxLine == 4

\* ------------------------------------------------------ program constants
\* perPage := 100 in getRepos
PerPage == 100

\* the batch-size flag, Value: 5
DefaultBatchSize == 5

\* the IntFlag batch-size takes any integer: zero and a negative value
NonPositiveBatchSizes == {0, -1}

\* batch sizes of direct calls, and those a command line may carry
BatchSizes == 1 .. MaxBatch
FlagBatchSizes == BatchSizes \cup {DefaultBatchSize} \cup NonPositiveBatchSizes

\* sizes of the remote starred list: empty, one record, exact multiples of
\* the page capacity and one past them
Totals ==
  {(k * PerPage) + r : k \in 0 .. (MaxPages - 1), r \in {0, 1}} \cup {MaxPages * PerPage}

\* ---------------------------------------------------------- data model
\* topics carried by the records of the remote list, by record number
TopicTable ==
  << <<>>, <<"cli">>, <<"CLI">>, <<"cl", "web">>, <<"web", "cli">>, <<"go", "go">> >>

\* type repository struct: Name, Topics, HtmlURL (FullName is never read)
repository(n) ==
  [Name |-> n, Topics |-> TopicTable[(n % Len(TopicTable)) + 1], HtmlURL |-> n]

\* the starred list of the user on the host, T records in the host's order
RemoteList(T) == [n \in 1 .. T |-> repository(n)]

\* values of the repos --topics flag (ctx.StringSlice("topics"))
TopicsFlags == { <<>>, <<"cli">>, <<"cli", "web">>, <<"rust">> }

\* a Go slice value: nil or a (possibly empty) sequence of elements
NilSlice == [nil |-> TRUE, elems |-> <<>>]
Slice(s) == [nil |-> FALSE, elems |-> s]

\* []repository{}
EmptySlice == Slice(<<>>)

\* append(s, xs...): appending nothing to a nil slice leaves it nil
append(s, xs) ==
  IF s.nil /\ xs = <<>> THEN NilSlice ELSE Slice(s.elems \o xs)

NoErr == "nil"
FetchErrors == {"TransportError", "DecodeError"}

Min(a, b) == IF a < b THEN a ELSE b

\* the bytes of the Go strings the model uses
Bytes(str) ==
  CASE str = "cli" -> <<99, 108, 105>>
    [] str = "CLI" -> <<67, 76, 73>>
    [] str = "cl" -> <<99, 108>>
    [] str = "web" -> <<119, 101, 98>>
    [] str = "go" -> <<103, 111>>
    [] str = "rust" -> <<114, 117, 115, 116>>
    [] str = "repos" -> <<114, 101, 112, 111, 115>>
    [] str = "topics" -> <<116, 111, 112, 105, 99, 115>>
    [] str = "shell" -> <<115, 104, 101, 108, 108>>
    [] str = "t" -> <<116>>
    [] str = "-" -> <<45>>
    [] str = "--" -> <<45, 45>>
    [] str = "-t" -> <<45, 116>>
    [] str = "--t" -> <<45, 45, 116>>
    [] str = "--topics" -> <<45, 45, 116, 111, 112, 105, 99, 115>>
    [] str = " " -> <<32>>
    [] str = "\t" -> <<9>>
    [] str = "" -> <<>>

\* x < y of two Go strings, given as bytes: the order of the first byte
\* that differs, a proper prefix coming first; n is the position compared
RECURSIVE BytesLess(_, _, _)
BytesLess(x, y, n) ==
  IF n > Len(y) THEN FALSE
  ELSE IF n > Len(x) THEN TRUE
  ELSE IF x[n] < y[n] THEN TRUE
  ELSE IF x[n] > y[n] THEN FALSE
  ELSE BytesLess(x, y, n + 1)

\* unicode.ToUpper of an ASCII byte
ToUpper(b) == IF b >= 97 /\ b <= 122 THEN b - 32 ELSE b

\* strings.ToUpper
UpperBytes(x) == [n \in 1 .. Len(x) |-> ToUpper(x[n])]

\* the host's answer to user/starred?page=<page>&per_page=<perPage>
PageOf(list, page, perPage) ==
  IF (page - 1) * perPage >= Len(list)
    THEN <<>>
    ELSE SubSeq(list, ((page - 1) * perPage) + 1, Min(page * perPage, Len(list)))

\* one call of the host: user/starred?page=<page>&per_page=<perPage>
Request(page, perPage) == [page |-> page, per_page |-> perPage]

VARIABLES
  mode,               \* "oneshot" | "shell" | "direct"
  remote,             \* the remote starred list
  cachedRepositories, \* the cache slot (a slice)
  pc,                 \* position of the main goroutine
  caller,             \* who called getRepos: "repos" | "direct" | "none"
  batchSize,          \* getRepos argument
  useCache,           \* getRepos argument
  topicsFlag,         \* repos: topics, the --topics values of the command
  entryCache,         \* cachedRepositories as read on entry of getRepos
  i,                  \* getRepos: page cursor of the window loop
  starredRepos,       \* getRepos: accumulator
  result,             \* getReposPerPageBatch: shared window accumulator
  spawned,            \* getReposPerPageBatch: loop variable i (tasks started)
  wg,                 \* getReposPerPageBatch: sync.WaitGroup counter
  tasks,              \* the page tasks (goroutines) of the window
  requested,          \* bag of the requests sent to the host in this call
  ret,                \* what getRepos returned: [val, err]
  printed,            \* rows appended to the table by repos, lines of topics
  topicsRet,          \* what getTopics returned: [val, err]
  line,               \* complete: the text before the cursor
  where,              \* complete: the branch taken
  candidates,         \* complete: the suggestions before the fuzzy filter
  suggest,            \* complete: the suggestions returned
  exitBy              \* why the process ended: "none" | "main" | "worker" | "eof"

vars ==
  << mode, remote, cachedRepositories, pc, caller, batchSize, useCache,
     topicsFlag, entryCache, i, starredRepos, result, spawned, wg, tasks,
     requested, ret, printed, topicsRet, line, where, candidates, suggest,
     exitBy >>

\* the state of getTopics and of the completer
completerVars == << topicsRet, line, where, candidates, suggest >>

TaskIds == 0 .. ((IF MaxBatch > DefaultBatchSize THEN MaxBatch ELSE DefaultBatchSize) - 1)

NoTask == [pc |-> "none", page |-> 0, repos |-> <<>>, snap |-> NilSlice]
NoTasks == [k \in TaskIds |-> NoTask]
NoRet == [val |-> NilSlice, err |-> "none"]

\* the process has started: the cache slot is nil, no call is running
Started ==
  /\ cachedRepositories = NilSlice
  /\ pc = "idle"
  /\ caller = "none"
  /\ batchSize = 1
  /\ useCache = TRUE
  /\ topicsFlag = <<>>
  /\ entryCache = NilSlice
  /\ i = 1
  /\ starredRepos = EmptySlice
  /\ result = EmptySlice
  /\ spawned = 0
  /\ wg = 0
  /\ tasks = NoTasks
  /\ requested = EmptyBag
  /\ ret = NoRet
  /\ printed = <<>>
  /\ topicsRet = NoRet
  /\ line = <<>>
  /\ where = "none"
  /\ candidates = <<>>
  /\ suggest = <<>>
  /\ exitBy = "none"

Init ==
  /\ mode \in {"oneshot", "shell", "direct"}
  /\ remote \in {RemoteList(T) : T \in Totals}
  /\ Started

\* ------------------------------------------------------------- repos
\* repos, lines 88-98: the scan of repo.Topics x topics, leaving both loops
\* at the first equal pair; a is the position in repo.Topics, b in topics
RECURSIVE TopicScan(_, _, _, _)
TopicScan(repoTopics, topics, a, b) ==
  IF a > Len(repoTopics) THEN FALSE
  ELSE IF b > Len(topics) THEN TopicScan(repoTopics, topics, a + 1, 1)
  ELSE IF repoTopics[a] = topics[b] THEN TRUE
  ELSE TopicScan(repoTopics, topics, a, b + 1)

\* ShouldPrint asking for every requested topic instead of any
ShouldPrintEveryTopic(repo, topics) ==
  IF Len(topics) = 0 THEN TRUE
  ELSE \A b \in 1 .. Len(topics) : TopicScan(repo.Topics, <<topics[b]>>, 1, 1)

\* repos, lines 84-99: shouldPrint of one record
ShouldPrint(repo, topics) ==
  IF Len(topics) = 0 THEN TRUE ELSE TopicScan(repo.Topics, topics, 1, 1)

\* repos, lines 83-103: the rows appended to the table, one {Name, HtmlURL}
\* for each record of the range loop whose shouldPrint is true
TableRows(list, topics) ==
  LET shown == SelectSeq(list, LAMBDA repo : ShouldPrint(repo, topics))
  IN  [n \in 1 .. Len(shown) |-> <<shown[n].Name, shown[n].HtmlURL>>]

\* ---------------------------------------------------------- getTopics
\* lines 128-133: the keys of the map topicExists
TopicExists(list) ==
  UNION { {list[n].Topics[a] : a \in 1 .. Len(list[n].Topics)} : n \in 1 .. Len(list) }

\* TopicLess comparing without regard to case
TopicLessFold(a, b) == BytesLess(UpperBytes(Bytes(a)), UpperBytes(Bytes(b)), 1)

\* line 139: the less function, topics[i] < topics[j]
TopicLess(a, b) == BytesLess(Bytes(a), Bytes(b), 1)

\* sort.Slice, one element at a time: x goes before the first element it
\* is less than
RECURSIVE InsertTopic(_, _)
InsertTopic(x, sorted) ==
  IF sorted = <<>> THEN <<x>>
  ELSE IF TopicLess(x, Head(sorted)) THEN <<x>> \o sorted
  ELSE <<Head(sorted)>> \o InsertTopic(x, Tail(sorted))

\* lines 135-139: the keys of the map, ranged over in an order the runtime
\* picks, appended to topics and sorted
RECURSIVE SortedTopics(_)
SortedTopics(keys) ==
  IF keys = {} THEN <<>>
  ELSE LET x == CHOOSE k \in keys : TRUE
       IN  InsertTopic(x, SortedTopics(keys \ {x}))

\* ------------------------------------------------------------ getRepos
\* CacheHit testing len(cachedRepositories) > 0 instead of != nil
CacheHitNonEmpty(cache, uc) == (Len(cache.elems) > 0) /\ uc

\* CacheHit without the useCache test
CacheHitIgnoresBypass(cache, uc) == ~cache.nil

\* line 230: the cache is used when it is populated and not bypassed
CacheHit(cache, uc) == (~cache.nil) /\ uc

\* line 235: starredRepos := []repository{}
NewAccumulator == EmptySlice

\* line 248: the window was short, the loop ends
ShortWindow(repos, perPage, bs) == Len(repos) < perPage * bs

\* lines 229-235: entry of getRepos
GetReposEnter(who, bs, uc) ==
  /\ pc = "idle"
  /\ caller' = who
  /\ batchSize' = bs
  /\ useCache' = uc
  /\ entryCache' = cachedRepositories
  /\ requested' = EmptyBag
  /\ IF CacheHit(cachedRepositories, uc)
       THEN /\ pc' = "returned"
            /\ ret' = [val |-> cachedRepositories, err |-> NoErr]
            /\ UNCHANGED << i, starredRepos >>
       ELSE /\ pc' = "loop"
            /\ i' = 1
            /\ starredRepos' = NewAccumulator
            /\ ret' = NoRet
  /\ UNCHANGED << mode, remote, cachedRepositories, topicsFlag, result, spawned,
                  wg, tasks, printed, topicsRet, exitBy >>

\* repos, line 75: getRepos(ctx.Int("batch-size"), true), from main or from
\* a line of the shell
ReposCommand ==
  /\ mode \in {"oneshot", "shell"}
  /\ \E bs \in FlagBatchSizes : GetReposEnter("repos", bs, TRUE)
  /\ UNCHANGED << line, where, candidates, suggest >>

\* topics, line 110, and getTopics, line 123: getRepos(batchSize, true)
TopicsCommand ==
  /\ mode \in {"oneshot", "shell"}
  /\ \E bs \in FlagBatchSizes : GetReposEnter("topics", bs, TRUE)
  /\ UNCHANGED << line, where, candidates, suggest >>

\* getRepos called with any arguments
DirectCall ==
  /\ mode = "direct"
  /\ \E bs \in BatchSizes, uc \in BOOLEAN : GetReposEnter("direct", bs, uc)
  /\ UNCHANGED << line, where, candidates, suggest >>

\* lines 244-254 after a window that returned repos without error
AfterWindow(repos) ==
  LET acc == append(starredRepos, repos) IN
    /\ starredRepos' = acc
    /\ IF ShortWindow(repos, PerPage, batchSize)
         THEN /\ cachedRepositories' = acc
              /\ ret' = [val |-> acc, err |-> NoErr]
              /\ pc' = "returned"
              /\ i' = i
         ELSE /\ i + batchSize >= 1 - MaxRewind
              /\ i' = i + batchSize
              /\ pc' = "loop"
              /\ UNCHANGED << cachedRepositories, ret >>

\* ReturnError storing the records accumulated so far
ReturnErrorStoresPartial(e) ==
  /\ ret' = [val |-> NilSlice, err |-> e]
  /\ pc' = "returned"
  /\ cachedRepositories' = starredRepos
  /\ UNCHANGED << starredRepos, i >>

\* ReturnError storing its nil result
ReturnErrorClearsCache(e) ==
  /\ ret' = [val |-> NilSlice, err |-> e]
  /\ pc' = "returned"
  /\ cachedRepositories' = NilSlice
  /\ UNCHANGED << starredRepos, i >>

\* lines 244-246 after a window that returned an error
ReturnError(e) ==
  /\ ret' = [val |-> NilSlice, err |-> e]
  /\ pc' = "returned"
  /\ UNCHANGED << cachedRepositories, starredRepos, i >>

\* lines 239-240 and 275-291: batchSize == 1, page i is fetched by the
\* caller's goroutine
SyncWindow ==
  /\ pc = "loop"
  /\ batchSize = 1
  /\ requested' = requested (+) SetToBag({Request(i, PerPage)})
  /\ AfterWindow(PageOf(remote, i, PerPage))
  /\ UNCHANGED << mode, remote, caller, batchSize, useCache, topicsFlag,
                  entryCache, result, spawned, wg, tasks, printed, completerVars, exitBy >>

\* the same fetch failing: gh.Exec or json.Unmarshal returns an error
SyncWindowFail ==
  /\ pc = "loop"
  /\ batchSize = 1
  /\ requested' = requested (+) SetToBag({Request(i, PerPage)})
  /\ \E e \in FetchErrors : ReturnError(e)
  /\ UNCHANGED << mode, remote, caller, batchSize, useCache, topicsFlag,
                  entryCache, result, spawned, wg, tasks, printed, completerVars, exitBy >>

\* ------------------------------------------------ getReposPerPageBatch
\* lines 242, 258-259: entry, result := []repository{}
BatchStart ==
  /\ pc = "loop"
  /\ batchSize # 1
  /\ pc' = "batch"
  /\ result' = EmptySlice
  /\ spawned' = 0
  /\ wg' = 0
  /\ tasks' = NoTasks
  /\ UNCHANGED << mode, remote, cachedRepositories, caller, batchSize, useCache,
                  topicsFlag, entryCache, i, starredRepos, requested, ret,
                  printed, completerVars, exitBy >>

\* Spawn handing the first page of the window to every task
SpawnSamePage ==
  /\ pc = "batch"
  /\ spawned < batchSize
  /\ wg' = wg + 1
  /\ tasks' = [tasks EXCEPT ![spawned] =
                 [pc |-> "fetch", page |-> i, repos |-> <<>>, snap |-> NilSlice]]
  /\ spawned' = spawned + 1
  /\ UNCHANGED << mode, remote, cachedRepositories, pc, caller, batchSize,
                  useCache, topicsFlag, entryCache, i, starredRepos, result,
                  requested, ret, printed, completerVars, exitBy >>

\* lines 260-262, 269: wg.Add(1); go func(page+i, perPage)
Spawn ==
  /\ pc = "batch"
  /\ spawned < batchSize
  /\ wg' = wg + 1
  /\ tasks' = [tasks EXCEPT ![spawned] =
                 [pc |-> "fetch", page |-> i + spawned, repos |-> <<>>, snap |-> NilSlice]]
  /\ spawned' = spawned + 1
  /\ UNCHANGED << mode, remote, cachedRepositories, pc, caller, batchSize,
                  useCache, topicsFlag, entryCache, i, starredRepos, result,
                  requested, ret, printed, completerVars, exitBy >>

\* line 264: the task's page fetch returns its page
TaskFetch(k) ==
  /\ pc = "batch"
  /\ tasks[k].pc = "fetch"
  /\ requested' = requested (+) SetToBag({Request(tasks[k].page, PerPage)})
  /\ tasks' = [tasks EXCEPT ![k].pc = "read",
                            ![k].repos = PageOf(remote, tasks[k].page, PerPage)]
  /\ UNCHANGED << mode, remote, cachedRepositories, pc, caller, batchSize,
                  useCache, topicsFlag, entryCache, i, starredRepos, result,
                  spawned, wg, ret, printed, completerVars, exitBy >>

\* lines 264-267: the task's page fetch fails; log.Fatalln ends the process
TaskFetchFail(k) ==
  /\ pc = "batch"
  /\ tasks[k].pc = "fetch"
  /\ requested' = requested (+) SetToBag({Request(tasks[k].page, PerPage)})
  /\ pc' = "exited"
  /\ exitBy' = "worker"
  /\ UNCHANGED << mode, remote, cachedRepositories, caller, batchSize, useCache,
                  topicsFlag, entryCache, i, starredRepos, result, spawned, wg,
                  tasks, ret, printed, completerVars >>

\* line 268, first half: the task reads the shared slice header of result.
\* The append is not synchronised, so its read and its write are two steps
\* and other tasks may run between them.
TaskAppendRead(k) ==
  /\ pc = "batch"
  /\ tasks[k].pc = "read"
  /\ tasks' = [tasks EXCEPT ![k].pc = "write", ![k].snap = result]
  /\ UNCHANGED << mode, remote, cachedRepositories, pc, caller, batchSize,
                  useCache, topicsFlag, entryCache, i, starredRepos, result,
                  spawned, wg, requested, ret, printed, completerVars, exitBy >>

\* line 268, second half, and the deferred wg.Done() of line 263
TaskAppendWrite(k) ==
  /\ pc = "batch"
  /\ tasks[k].pc = "write"
  /\ result' = append(tasks[k].snap, tasks[k].repos)
  /\ wg' = wg - 1
  /\ tasks' = [tasks EXCEPT ![k] = [NoTask EXCEPT !.pc = "done", !.page = tasks[k].page]]
  /\ UNCHANGED << mode, remote, cachedRepositories, pc, caller, batchSize,
                  useCache, topicsFlag, entryCache, i, starredRepos, spawned,
                  requested, ret, printed, completerVars, exitBy >>

\* Join without the wg.Wait() of line 271
JoinWithoutWait ==
  /\ pc = "batch"
  /\ ~(spawned < batchSize)
  /\ AfterWindow(result.elems)
  /\ tasks' = NoTasks
  /\ UNCHANGED << mode, remote, caller, batchSize, useCache, topicsFlag,
                  entryCache, result, spawned, wg, requested, printed, completerVars, exitBy >>

\* lines 271-272 and 244-254: wg.Wait() returns, the window is handed to
\* getRepos
Join ==
  /\ pc = "batch"
  /\ ~(spawned < batchSize)
  /\ wg = 0
  /\ AfterWindow(result.elems)
  /\ tasks' = NoTasks
  /\ UNCHANGED << mode, remote, caller, batchSize, useCache, topicsFlag,
                  entryCache, result, spawned, wg, requested, printed, completerVars, exitBy >>

\* -------------------------------------------------------- the callers
\* repos, lines 76-78: the error is returned to the command layer
ReposError ==
  /\ pc = "returned"
  /\ caller = "repos"
  /\ ret.err # NoErr
  /\ pc' = "finished"
  /\ UNCHANGED << mode, remote, cachedRepositories, caller, batchSize, useCache,
                  topicsFlag, entryCache, i, starredRepos, result, spawned, wg,
                  tasks, requested, ret, printed, completerVars, exitBy >>

\* repos, lines 80-106: topics := ctx.StringSlice("topics"), the table is
\* filled and rendered
ReposRender ==
  /\ pc = "returned"
  /\ caller = "repos"
  /\ ret.err = NoErr
  /\ \E tf \in TopicsFlags :
       /\ topicsFlag' = tf
       /\ printed' = TableRows(ret.val.elems, tf)
  /\ pc' = "finished"
  /\ UNCHANGED completerVars
  /\ UNCHANGED << mode, remote, cachedRepositories, caller, batchSize, useCache,
                  entryCache, i, starredRepos, result, spawned, wg,
                  tasks, requested, ret, exitBy >>

\* getTopics, lines 124-126, and topics, lines 111-113: the error of getRepos
\* is returned to the command layer
TopicsError ==
  /\ pc = "returned"
  /\ caller = "topics"
  /\ ret.err # NoErr
  /\ topicsRet' = [val |-> NilSlice, err |-> ret.err]
  /\ pc' = "finished"
  /\ UNCHANGED << mode, remote, cachedRepositories, caller, batchSize, useCache,
                  topicsFlag, entryCache, i, starredRepos, result, spawned, wg,
                  tasks, requested, ret, printed, line, where, candidates, suggest,
                  exitBy >>

\* getTopics, lines 128-140, and topics, lines 115-119: the sorted topics
\* are printed one per line
TopicsPrint ==
  /\ pc = "returned"
  /\ caller = "topics"
  /\ ret.err = NoErr
  /\ topicsRet' = [val |-> Slice(SortedTopics(TopicExists(ret.val.elems))), err |-> NoErr]
  /\ printed' = topicsRet'.val.elems
  /\ pc' = "finished"
  /\ UNCHANGED << mode, remote, cachedRepositories, caller, batchSize, useCache,
                  topicsFlag, entryCache, i, starredRepos, result, spawned, wg,
                  tasks, requested, ret, line, where, candidates, suggest, exitBy >>

\* ------------------------------------------------------ the completer
\* A line of the prompt is a sequence of pieces of text: a space, a tab, or
\* a run of other characters.  A word is a sequence of pieces as well; two
\* texts are equal when their bytes are.
Pieces == {" ", "\t", "repos", "topics", "-t", "--topics", "--t", "cl"}

\* the bytes of a text given by its pieces
RECURSIVE TextBytes(_)
TextBytes(text) ==
  IF text = <<>> THEN <<>> ELSE Bytes(Head(text)) \o TextBytes(Tail(text))

\* strings.TrimLeft(text, " ")
RECURSIVE TrimLeftSpace(_)
TrimLeftSpace(text) ==
  IF text # <<>> /\ Head(text) = " " THEN TrimLeftSpace(Tail(text)) ELSE text

\* strings.Contains(text, " ")
ContainsSpace(text) == \E n \in 1 .. Len(text) : text[n] = " "

\* unicode.IsSpace, by which strings.Fields splits
IsSpace(piece) == piece \in {" ", "\t"}

\* strings.Fields: the maximal runs of pieces that are not white space; cur
\* is the word being read from position n, acc the words read
RECURSIVE FieldsFrom(_, _, _, _)
FieldsFrom(text, n, cur, acc) ==
  LET closed == IF cur = <<>> THEN acc ELSE Append(acc, cur) IN
    IF n > Len(text) THEN closed
    ELSE IF IsSpace(text[n]) THEN FieldsFrom(text, n + 1, <<>>, closed)
    ELSE FieldsFrom(text, n + 1, Append(cur, text[n]), acc)

Fields(text) == FieldsFrom(text, 1, <<>>, <<>>)

\* Document.FindStartOfPreviousWord of go-prompt: the position after the
\* last " " of the text before the cursor, 0 when it has none
FindStartOfPreviousWord(text) ==
  IF ContainsSpace(text)
    THEN CHOOSE n \in 1 .. Len(text) :
           text[n] = " " /\ \A m \in (n + 1) .. Len(text) : text[m] # " "
    ELSE 0

\* Document.GetWordBeforeCursor of go-prompt
GetWordBeforeCursor(text) ==
  SubSeq(text, FindStartOfPreviousWord(text) + 1, Len(text))

\* fuzzyMatch of go-prompt: the bytes of sub occur in s in their order; si
\* and ci are the positions reached in s and in sub
RECURSIVE FuzzyMatch(_, _, _, _)
FuzzyMatch(str, sub, si, ci) ==
  IF ci > Len(sub) THEN TRUE
  ELSE IF si > Len(str) THEN FALSE
  ELSE IF str[si] = sub[ci] THEN FuzzyMatch(str, sub, si + 1, ci + 1)
  ELSE FuzzyMatch(str, sub, si + 1, ci)

\* prompt.FilterFuzzy(s, sub, true): everything for an empty sub, otherwise
\* the suggestions whose text matches sub without regard to case
FilterFuzzy(suggestions, sub) ==
  IF sub = <<>> THEN suggestions
  ELSE SelectSeq(suggestions,
                 LAMBDA text : FuzzyMatch(UpperBytes(text), UpperBytes(sub), 1, 1))

\* main, lines 37-60: the commands of the app, each flag with its Names()
Commands ==
  << [Name |-> "repos", Flags |-> << <<"topics", "t">> >>],
     [Name |-> "topics", Flags |-> <<>>],
     [Name |-> "shell", Flags |-> <<>>] >>

\* lines 170-176: one suggestion for each command name
CommandSuggestions == [n \in 1 .. Len(Commands) |-> Bytes(Commands[n].Name)]

\* lines 211-219: "-" before a name of one character, "--" before the others
FlagText(name) ==
  (IF Len(Bytes(name)) = 1 THEN Bytes("-") ELSE Bytes("--")) \o Bytes(name)

\* lines 209-221: the suggestions for the names of the flags from flag n on
RECURSIVE FlagSuggestions(_, _)
FlagSuggestions(flags, n) ==
  IF n > Len(flags) THEN <<>>
  ELSE [a \in 1 .. Len(flags[n]) |-> FlagText(flags[n][a])]
         \o FlagSuggestions(flags, n + 1)

\* lines 200-206: the commands whose Name is cmdWord, in the order of the app
CommandsNamed(cmdWord) ==
  SelectSeq(Commands, LAMBDA c : Bytes(c.Name) = TextBytes(cmdWord))

\* lines 180-185: lastWord is a name of the topics flag of repos.  lastWord
\* and cmdWord are words[len(words)-1] and words[0]
IsAtTopic(words) ==
  /\ TextBytes(words[1]) = Bytes("repos")
  /\ \/ TextBytes(words[Len(words)]) = Bytes("-t")
     \/ TextBytes(words[Len(words)]) = Bytes("--topics")

\* line 169: the text before the cursor is in its first word
AtFirstWord(text) == ~ContainsSpace(TrimLeftSpace(text))

\* line 180: the words before the word the cursor is in
WordsBefore(text) == Fields(SubSeq(text, 1, FindStartOfPreviousWord(text)))

\* line 177, 196, 222: the suggestions are filtered by the word before the
\* cursor and returned to the prompt
Suggest(text, list) ==
  /\ candidates' = list
  /\ suggest' = FilterFuzzy(list, TextBytes(GetWordBeforeCursor(text)))
  /\ pc' = "suggested"

\* lines 165-227 up to the call of getTopics: complete on the text before
\* the cursor.  The batch size is the one of the command line of the shell.
CompleteOn(text) ==
  /\ line' = text
  /\ IF AtFirstWord(text)
       THEN /\ where' = "AtCommandWord"
            /\ Suggest(text, CommandSuggestions)
            /\ UNCHANGED << caller, batchSize, useCache, entryCache, requested,
                            ret, i, starredRepos, exitBy >>
       ELSE IF WordsBefore(text) = <<>>
         THEN \* line 181: words[len(words)-1] of an empty slice panics
              /\ where' = "panic"
              /\ pc' = "exited"
              /\ exitBy' = "panic"
              /\ UNCHANGED << caller, batchSize, useCache, entryCache, requested,
                              ret, i, starredRepos, candidates, suggest >>
       ELSE IF IsAtTopic(WordsBefore(text))
         THEN /\ where' = "AtFlagValue"
              /\ \E bs \in FlagBatchSizes : GetReposEnter("complete", bs, TRUE)
              /\ UNCHANGED << candidates, suggest >>
       ELSE IF CommandsNamed(WordsBefore(text)[1]) # <<>>
         THEN /\ where' = "AtFlagName"
              /\ Suggest(text, FlagSuggestions(CommandsNamed(WordsBefore(text)[1])[1].Flags, 1))
              /\ UNCHANGED << caller, batchSize, useCache, entryCache, requested,
                              ret, i, starredRepos, exitBy >>
       ELSE /\ where' = "NoMatch"
            /\ candidates' = <<>>
            /\ suggest' = <<>>
            /\ pc' = "suggested"
            /\ UNCHANGED << caller, batchSize, useCache, entryCache, requested,
                            ret, i, starredRepos, exitBy >>
  /\ UNCHANGED << mode, remote, cachedRepositories, topicsFlag, result, spawned,
                  wg, tasks, printed, topicsRet >>

\* a key is pressed at the prompt with the cursor after some text of lines
Keystroke(lines) ==
  /\ mode = "shell"
  /\ pc = "idle"
  /\ \E text \in lines : \E cursor \in 0 .. Len(text) :
       CompleteOn(SubSeq(text, 1, cursor))

\* lines 189-196 and getTopics, lines 124-140: getTopics returns, its error
\* is dropped, the topics become the suggestions
CompleteTopics ==
  /\ pc = "returned"
  /\ caller = "complete"
  /\ topicsRet' =
       IF ret.err # NoErr
         THEN [val |-> NilSlice, err |-> ret.err]
         ELSE [val |-> Slice(SortedTopics(TopicExists(ret.val.elems))), err |-> NoErr]
  /\ Suggest(line, [n \in 1 .. Len(topicsRet'.val.elems) |-> Bytes(topicsRet'.val.elems[n])])
  /\ UNCHANGED << mode, remote, cachedRepositories, caller, batchSize, useCache,
                  topicsFlag, entryCache, i, starredRepos, result, spawned, wg,
                  tasks, requested, ret, printed, line, where, exitBy >>

\* lines typed in a session next to the commands
KeyLines ==
  { <<"repos", " ", "-t", " ", "cl">>,
    <<"repos", " ", "--t">>,
    <<"cl", " ", "cl">>,
    <<"\t", " ">> }

\* the state between two calls
Reset ==
  /\ caller' = "none"
  /\ batchSize' = 1
  /\ useCache' = TRUE
  /\ topicsFlag' = <<>>
  /\ entryCache' = NilSlice
  /\ i' = 1
  /\ starredRepos' = EmptySlice
  /\ result' = EmptySlice
  /\ spawned' = 0
  /\ wg' = 0
  /\ tasks' = NoTasks
  /\ requested' = EmptyBag
  /\ ret' = NoRet
  /\ printed' = <<>>
  /\ topicsRet' = NoRet
  /\ line' = <<>>
  /\ where' = "none"
  /\ candidates' = <<>>
  /\ suggest' = <<>>

\* main, lines 69-71: app.Run returns; log.Fatal on an error
MainReturn ==
  /\ mode = "oneshot"
  /\ pc = "finished"
  /\ pc' = "exited"
  /\ exitBy' = IF ret.err = NoErr THEN "main" ELSE "mainFatal"
  /\ UNCHANGED << mode, remote, cachedRepositories, caller, batchSize, useCache,
                  topicsFlag, entryCache, i, starredRepos, result, spawned, wg,
                  tasks, requested, ret, printed, completerVars >>

\* execute, line 158: the error of the re-dispatched command is dropped and
\* the prompt loop reads the next line
ShellNext ==
  /\ mode = "shell"
  /\ pc = "finished"
  /\ pc' = "idle"
  /\ Reset
  /\ UNCHANGED << mode, remote, cachedRepositories, exitBy >>

\* complete has returned: the prompt shows the suggestions and waits for the
\* next key
Prompt ==
  /\ pc = "suggested"
  /\ pc' = "idle"
  /\ Reset
  /\ UNCHANGED << mode, remote, cachedRepositories, exitBy >>

\* shell, lines 147-148: end of input ends p.Run(), shell returns nil
ShellEOF ==
  /\ mode = "shell"
  /\ pc = "idle"
  /\ pc' = "exited"
  /\ exitBy' = "eof"
  /\ UNCHANGED << mode, remote, cachedRepositories, caller, batchSize, useCache,
                  topicsFlag, entryCache, i, starredRepos, result, spawned, wg,
                  tasks, requested, ret, printed, completerVars >>

\* the direct caller has its result
DirectReturn ==
  /\ pc = "returned"
  /\ caller = "direct"
  /\ pc' = "idle"
  /\ Reset
  /\ UNCHANGED << mode, remote, cachedRepositories, exitBy >>

\* the user stars or unstars repositories between two commands
RemoteChange ==
  /\ pc = "idle"
  /\ mode \in {"shell", "direct"}
  /\ remote' \in {RemoteList(T) : T \in Totals} \ {remote}
  /\ UNCHANGED << mode, cachedRepositories, pc, caller, batchSize, useCache,
                  topicsFlag, entryCache, i, starredRepos, result, spawned, wg,
                  tasks, requested, ret, printed, completerVars, exitBy >>

Next ==
  \/ Keystroke(KeyLines)
  \/ CompleteTopics
  \/ Prompt
  \/ ReposCommand
  \/ TopicsCommand
  \/ TopicsError
  \/ TopicsPrint
  \/ DirectCall
  \/ SyncWindow
  \/ SyncWindowFail
  \/ BatchStart
  \/ Spawn
  \/ \E k \in TaskIds : TaskFetch(k)
  \/ \E k \in TaskIds : TaskFetchFail(k)
  \/ \E k \in TaskIds : TaskAppendRead(k)
  \/ \E k \in TaskIds : TaskAppendWrite(k)
  \/ Join
  \/ ReposError
  \/ ReposRender
  \/ MainReturn
  \/ ShellNext
  \/ ShellEOF
  \/ DirectReturn
  \/ RemoteChange

Spec == Init /\ [][Next]_vars

\* ---------------------------------------------- the completer on its own
\* every line of at most n pieces
RECURSIVE LinesUpTo(_)
LinesUpTo(n) ==
  IF n = 0 THEN {<<>>}
  ELSE LET shorter == LinesUpTo(n - 1)
       IN  shorter \cup {Append(text, p) : text \in {t \in shorter : Len(t) = n - 1}, p \in Pieces}

AllLines == LinesUpTo(MaxLine)

\* a shell session of a user with no starred repository, or with one for
\* each row of TopicTable
InitComplete ==
  /\ mode = "shell"
  /\ remote \in {RemoteList(0), RemoteList(Len(TopicTable))}
  /\ Started

\* the session: commands and keys as in Next, any line at the prompt once
\* a command has fetched the list
NextComplete ==
  \/ (~cachedRepositories.nil /\ Keystroke(AllLines))
  \/ CompleteTopics
  \/ Prompt
  \/ ReposCommand
  \/ TopicsCommand
  \/ TopicsError
  \/ TopicsPrint
  \/ SyncWindow
  \/ SyncWindowFail
  \/ BatchStart
  \/ Spawn
  \/ \E k \in TaskIds : TaskFetch(k)
  \/ \E k \in TaskIds : TaskFetchFail(k)
  \/ \E k \in TaskIds : TaskAppendRead(k)
  \/ \E k \in TaskIds : TaskAppendWrite(k)
  \/ Join
  \/ ReposError
  \/ ReposRender
  \/ ShellNext
  \/ ShellEOF

SpecComplete == InitComplete /\ [][NextComplete]_vars

\* =================================================================
\* Properties
\* =================================================================

\* pages from .. from + n - 1 of the list, concatenated in ascending order
RECURSIVE PagesConcat(_, _, _)
PagesConcat(list, from, n) ==
  IF n <= 0 THEN <<>>
  ELSE PageOf(list, from, PerPage) \o PagesConcat(list, from + 1, n - 1)

\* getRepos(1) on a fresh cache: the pages fetched one after the other from
\* page on, until a short page
RECURSIVE SequentialFetch(_, _, _)
SequentialFetch(list, page, acc) ==
  LET repos == PageOf(list, page, PerPage) IN
    IF ShortWindow(repos, PerPage, 1)
      THEN acc \o repos
      ELSE SequentialFetch(list, page + 1, acc \o repos)

\* getRepos returned the result of a fetch (not of the cache) without error
FreshSuccess ==
  /\ pc = "returned"
  /\ ret.err = NoErr
  /\ requested # EmptyBag

\* getRepos failed, or the process ended in a fetch
FetchFailed ==
  \/ pc \in {"returned", "finished"} /\ ret.err \in FetchErrors
  \/ pc = "exited" /\ exitBy \in {"worker", "mainFatal"}

\* a step that enters getRepos
CallStep == pc = "idle" /\ pc' \in {"loop", "returned"}

\* a step in which getRepos returns without error
SuccessStep == pc # "returned" /\ pc' = "returned" /\ ret'.err = NoErr

\* C1: when all page tasks of a window have completed, the window's combined
\* result is the concatenation of its pages in ascending page order.
C1_WindowInPageOrder ==
  (pc = "batch" /\ spawned = batchSize /\ wg = 0)
    => result.elems = PagesConcat(remote, i, batchSize)

\* C2: a fresh full fetch with any batchSize returns the same ordered
\* sequence as a fresh full fetch with batchSize 1.
C2_SameAsSequential ==
  FreshSuccess => ret.val.elems = SequentialFetch(remote, 1, <<>>)

\* C3: a failing page fetch is returned by getRepos as an error; the process
\* is never ended from inside a page task.
C3_NoExitFromWorker ==
  exitBy # "worker"

\* C4: while a fetch runs and after it has failed, the cache slot holds what
\* it held on entry of the call.
C4_FailedFetchKeepsCache ==
  (pc \in {"loop", "batch"} \/ FetchFailed) => cachedRepositories = entryCache

\* a fetch failed in a later window, records of earlier windows were
\* accumulated and the cache was populated before the call
C4_Witness ==
  /\ pc = "returned"
  /\ ret.err \in FetchErrors
  /\ i > 1
  /\ starredRepos.elems # <<>>
  /\ ~entryCache.nil
  /\ cachedRepositories = entryCache

\* C5: a successful call leaves the cache populated, and every call with
\* useCache made while the cache is populated returns the stored slice at
\* once: no page is requested and the cache is unchanged, also when the
\* stored list is empty.
C5_CachedCallIsHit ==
  [][ /\ SuccessStep => ~cachedRepositories'.nil
      /\ (CallStep /\ useCache' /\ ~cachedRepositories.nil)
           => /\ pc' = "returned"
              /\ ret' = [val |-> cachedRepositories, err |-> NoErr]
              /\ cachedRepositories' = cachedRepositories
              /\ requested' = EmptyBag
      /\ (pc \in {"returned", "finished"} /\ pc' # "idle")
           => requested' = requested ]_vars

\* a command of a shell session answered from a stored empty list
C5_Witness ==
  /\ mode = "shell"
  /\ pc = "returned"
  /\ useCache
  /\ ~entryCache.nil
  /\ entryCache.elems = <<>>
  /\ ret = [val |-> entryCache, err |-> NoErr]
  /\ requested = EmptyBag
  /\ batchSize = DefaultBatchSize

\* C6: a fresh full fetch that returns holds every record of the remote
\* list.
C6_AllRecordsReturned ==
  FreshSuccess =>
    \A n \in 1 .. Len(remote) :
      \E m \in 1 .. Len(ret.val.elems) : ret.val.elems[m] = remote[n]

\* C7: the process of a shell session ends only on end of input.
C7_ShellEndsOnlyOnEOF ==
  (mode = "shell" /\ pc = "exited") => exitBy = "eof"

\* C8: a populated cache never becomes absent again, and a call made while
\* the cache is absent starts a fetch at page 1 with an empty accumulator.
C8_CacheInvariant ==
  [][ /\ (~cachedRepositories.nil) => ~cachedRepositories'.nil
      /\ (CallStep /\ cachedRepositories.nil)
           => /\ pc' = "loop"
              /\ i' = 1
              /\ starredRepos' = EmptySlice
              /\ requested' = EmptyBag ]_vars

\* a call failed while the cache was populated, and the cache is still there
C8_Witness ==
  /\ pc = "returned"
  /\ ret.err \in FetchErrors
  /\ ~entryCache.nil
  /\ ~cachedRepositories.nil

\* C9: a call with useCache = false starts a fetch at page 1 whatever the
\* cache holds; a fetch that succeeds stores exactly the list it returns;
\* a later call with useCache returns the stored list.
C9_BypassRefetchesAndStores ==
  [][ /\ (CallStep /\ ~useCache')
           => /\ pc' = "loop"
              /\ i' = 1
              /\ starredRepos' = EmptySlice
              /\ requested' = EmptyBag
      /\ (SuccessStep /\ pc # "idle")
           => /\ ~cachedRepositories'.nil
              /\ cachedRepositories' = ret'.val
      /\ (CallStep /\ pc' = "returned") => ret'.val = cachedRepositories ]_vars

\* a bypassing call over a populated cache returned the new remote list and
\* the cache now holds it instead of the old one
C9_Witness ==
  /\ pc = "returned"
  /\ ~useCache
  /\ ~entryCache.nil
  /\ ret.err = NoErr
  /\ cachedRepositories # entryCache
  /\ cachedRepositories = ret.val
  /\ ret.val.elems = remote

\* the record has a topic equal to one of the requested topics
HasRequestedTopic(repo, topics) ==
  \E a \in 1 .. Len(repo.Topics) : \E b \in 1 .. Len(topics) :
    repo.Topics[a] = topics[b]

\* the positions of the records the listing must show
ShownPositions(list, topics) ==
  {n \in 1 .. Len(list) : topics = <<>> \/ HasRequestedTopic(list[n], topics)}

\* C10: the repos listing prints, in fetched order and once each, all
\* records when no topic is requested, and otherwise exactly the records
\* with at least one topic equal to at least one requested topic.
C10_ListingIsTopicFilter ==
  (pc = "finished" /\ caller = "repos" /\ ret.err = NoErr) =>
    LET list == ret.val.elems
        shown == ShownPositions(list, topicsFlag)
    IN  /\ Len(printed) = Cardinality(shown)
        /\ \A n \in shown :
             LET j == Cardinality({m \in shown : m <= n})
             IN  printed[j] = <<list[n].Name, list[n].HtmlURL>>

\* a listing for two requested topics that shows some records and hides
\* others, one shown record carrying both topics
C10_Witness ==
  /\ pc = "finished"
  /\ caller = "repos"
  /\ ret.err = NoErr
  /\ topicsFlag = <<"cli", "web">>
  /\ printed # <<>>
  /\ Len(printed) < Len(ret.val.elems)
  /\ \E n \in 1 .. Len(ret.val.elems) :
       /\ \E a \in 1 .. Len(ret.val.elems[n].Topics) : ret.val.elems[n].Topics[a] = "cli"
       /\ \E a \in 1 .. Len(ret.val.elems[n].Topics) : ret.val.elems[n].Topics[a] = "web"

\* a window completed by going round the loop once more
LoopAgain == pc \in {"loop", "batch"} /\ pc' = "loop"

\* C18: for every value of the batch-size flag the window loop makes
\* progress towards its end: a completed window either ends getRepos or moves
\* the page cursor forward, and a window that starts past the last record
\* of the remote list ends getRepos.
C18_LoopProgress ==
  [][ LoopAgain => (i' > i /\ (i - 1) * PerPage < Len(remote)) ]_vars

\* s comes before t in the ordinal (byte by byte, case-sensitive) order:
\* at the first position where they differ s has ended or has the smaller
\* byte
OrdinalBefore(s, t) ==
  LET x == Bytes(s)
      y == Bytes(t)
  IN  \E n \in 1 .. Len(y) :
        /\ \A m \in 1 .. (n - 1) : m <= Len(x) /\ x[m] = y[m]
        /\ (n > Len(x) \/ x[n] < y[n])

\* C11: getTopics fails only when getRepos failed; what it returns is
\* strictly ascending and holds exactly the topics that occur on a fetched
\* record, so it is empty, and not an error, for an empty record list.
C11_TopicsSortedUnique ==
  /\ (topicsRet.err \in FetchErrors) => ret.err = topicsRet.err
  /\ (pc \in {"finished", "suggested"} /\ caller \in {"topics", "complete"} /\ where # "panic")
       => (topicsRet.err = NoErr <=> ret.err = NoErr)
  /\ (topicsRet.err = NoErr) =>
       LET out == topicsRet.val.elems
           list == ret.val.elems
       IN  /\ ~topicsRet.val.nil
           /\ \A n \in 1 .. (Len(out) - 1) : OrdinalBefore(out[n], out[n + 1])
           /\ \A t \in {"cli", "CLI", "cl", "web", "go", "rust"} :
                (\E n \in 1 .. Len(out) : out[n] = t)
                  <=> (\E n \in 1 .. Len(list) : \E a \in 1 .. Len(list[n].Topics) :
                         list[n].Topics[a] = t)
           /\ \A n \in 1 .. Len(out) : out[n] \in {"cli", "CLI", "cl", "web", "go"}

\* the topics command printed the five topics of a list in which several
\* records share a topic and one record carries a topic twice
C11_Witness ==
  /\ pc = "finished"
  /\ caller = "topics"
  /\ topicsRet.err = NoErr
  /\ printed = <<"CLI", "cl", "cli", "go", "web">>
  /\ Len(ret.val.elems) > 5

\* white space as the classification of the completer speaks of it
Blank(piece) == piece \in {" ", "\t"}

\* the words of a text as runs <<first, last>> of positions: maximal runs
\* of pieces that are not white space
WordRuns(text) ==
  { r \in (1 .. Len(text)) \X (1 .. Len(text)) :
      /\ r[1] <= r[2]
      /\ \A n \in r[1] .. r[2] : ~Blank(text[n])
      /\ (r[1] = 1 \/ Blank(text[r[1] - 1]))
      /\ (r[2] = Len(text) \/ Blank(text[r[2] + 1])) }

\* the bytes of the word of a run
RunBytes(text, r) == TextBytes(SubSeq(text, r[1], r[2]))

\* the first word of the text
FirstRun(text) == CHOOSE r \in WordRuns(text) : \A q \in WordRuns(text) : r[1] <= q[1]

\* the words before the fragment the cursor is in, and the last of them
RunsBeforeFragment(text) == {r \in WordRuns(text) : r[2] < Len(text)}
RunBeforeFragment(text) ==
  CHOOSE r \in RunsBeforeFragment(text) : \A q \in RunsBeforeFragment(text) : q[2] <= r[2]

\* the text, without its leading white space, has no white space
NoInnerBlank(text) ==
  \A n \in 1 .. Len(text) : Blank(text[n]) => \A m \in 1 .. n : Blank(text[m])

\* the four states in their order of priority
StateOf(text) ==
  IF NoInnerBlank(text) THEN "AtCommandWord"
  ELSE IF /\ RunBytes(text, FirstRun(text)) = Bytes("repos")
          /\ RunBytes(text, RunBeforeFragment(text)) \in {Bytes("-t"), Bytes("--topics")}
    THEN "AtFlagValue"
  ELSE IF RunBytes(text, FirstRun(text)) \in {Bytes("repos"), Bytes("topics"), Bytes("shell")}
    THEN "AtFlagName"
  ELSE "NoMatch"

\* the candidates of a state
CandidatesOf(text) ==
  CASE StateOf(text) = "AtCommandWord" -> <<Bytes("repos"), Bytes("topics"), Bytes("shell")>>
    [] StateOf(text) = "AtFlagValue" ->
         [n \in 1 .. Len(topicsRet.val.elems) |-> Bytes(topicsRet.val.elems[n])]
    [] StateOf(text) = "AtFlagName" ->
         IF RunBytes(text, FirstRun(text)) = Bytes("repos")
           THEN <<Bytes("--topics"), Bytes("-t")>>
           ELSE <<>>
    [] StateOf(text) = "NoMatch" -> <<>>

\* C12: complete puts every text before the cursor in one of the four
\* states, by their priority, and draws its candidates from that state;
\* NoMatch returns nothing, and `repos --t` returns --topics and no command.
C12_FourStates ==
  (where # "none") =>
    /\ where = StateOf(line)
    /\ (pc = "suggested") =>
         /\ candidates = CandidatesOf(line)
         /\ (where = "NoMatch" => suggest = <<>>)
         /\ (line = <<"repos", " ", "--t">> => suggest = <<Bytes("--topics")>>)

\* C19: complete returns for every text before the cursor: when the branch
\* of the command word is not taken, the words before the fragment are not
\* empty and complete does not fail.
C19_CompleteIsTotal ==
  (where \notin {"none", "AtCommandWord"}) =>
    (where # "panic" /\ exitBy # "panic" /\ WordsBefore(line) # <<>>)

\* C17: a key pressed where a topic is expected fetches only while the
\* cache is absent; a fetch that fails does not end the process, leaves the
\* cache absent and gives no suggestion.
C17_TopicCompletionFetch ==
  (caller = "complete") =>
    /\ (requested # EmptyBag => entryCache.nil)
    /\ exitBy # "worker"
    /\ (pc = "suggested" /\ ret.err \in FetchErrors)
         => (cachedRepositories.nil /\ suggest = <<>>)

\* the number of windows a fetch that returned has fetched
WindowsFetched == ((i - 1) \div batchSize) + 1

\* C13: a full fetch goes on to the next window exactly when the window
\* just fetched held batchSize x 100 records, so for a remote total T it
\* fetches floor(T / (batchSize x 100)) + 1 windows.
C13_WindowCount ==
  (FreshSuccess /\ batchSize >= 1) =>
    WindowsFetched = (Len(remote) \div (batchSize * PerPage)) + 1

\* task k has read the header of the shared result and has not written yet
AboutToWrite(k) == tasks[k].pc = "write"

\* C14: no two page tasks of a window write the same location of the
\* window accumulator: a task that is about to write holds the current
\* header of result, and it is the only one.
C14_NoConflictingWrites ==
  \A j \in TaskIds, k \in TaskIds :
    (AboutToWrite(j) /\ AboutToWrite(k)) => (j = k /\ tasks[k].snap = result)

\* some page task of the current window is still running
Running == \E k \in TaskIds : tasks[k].pc \in {"fetch", "read", "write"}

\* C15: while a page task of the window is running, getRepos starts no task
\* of the next window, does not test the window's length, does not append
\* to starredRepos and does not return.
C15_JoinBarrier ==
  [][ Running =>
        /\ starredRepos' = starredRepos
        /\ i' = i
        /\ ret' = ret
        /\ cachedRepositories' = cachedRepositories
        /\ pc' \in {"batch", "exited"}
        /\ \A k \in TaskIds :
             (tasks'[k].pc = "fetch" /\ tasks[k].pc # "fetch")
               => tasks'[k].page \in i .. (i + batchSize - 1) ]_vars

\* every task of the window is started, one has finished, one is running
C15_Witness ==
  /\ pc = "batch"
  /\ spawned = batchSize
  /\ \E j \in TaskIds, k \in TaskIds :
       /\ tasks[j].pc = "done"
       /\ tasks[k].pc \in {"fetch", "read", "write"}

\* the requests of pages 1 .. n, each once, with per_page = 100
RequestsUpTo(n) == SetToBag({Request(page, PerPage) : page \in 1 .. n})

\* C16: in a full fetch with batchSize >= 1 the pages requested are exactly
\* 1 .. k x batchSize for k windows, each once and with per_page = 100.
C16_PagesRequestedOnce ==
  (batchSize >= 1) =>
    /\ (pc = "loop") => requested = RequestsUpTo(i - 1)
    /\ (pc = "batch") =>
         /\ RequestsUpTo(i - 1) \sqsubseteq requested
         /\ requested \sqsubseteq RequestsUpTo(i + batchSize - 1)
    /\ FreshSuccess => requested = RequestsUpTo(WindowsFetched * batchSize)

\* a fetch of two windows of two pages has returned
C16_Witness ==
  /\ FreshSuccess
  /\ batchSize = 2
  /\ WindowsFetched = 2
  /\ requested = RequestsUpTo(4)
====
